---- MODULE Spec2Model ----
(***************************************************************************)
(* Model of vunit/vivado/vivado.py: the compile-order file parser         *)
(* (_read_compile_order), the registration of the parsed files with the   *)
(* build host (add_from_compile_order_file) and the extraction of the     *)
(* compile order with the external tool (create_compile_order_file,       *)
(* run_vivado).                                                           *)
(*                                                                         *)
(* Python strings are sequences of one-character strings, so that split,  *)
(* strip, basename, dirname and endswith are computed as the library      *)
(* computes them (posixpath for the path functions).                      *)
(***************************************************************************)
EXTENDS Integers, Sequences, FiniteSets, TLC

\* Longest compile-order file enumerated (in lines), besides ExampleFile.
MaxLines == 3

--------------------------------------------------------------------------
\* String literals of the source.
S_xil_defaultlib == <<"x", "i", "l", "_", "d", "e", "f", "a", "u", "l", "t", "l", "i", "b">>
S_VHDL == <<"V", "H", "D", "L">>
S_Verilog == <<"V", "e", "r", "i", "l", "o", "g">>
S_VerilogHeader == <<"V", "e", "r", "i", "l", "o", "g", " ", "H", "e", "a", "d", "e", "r">>
S_dot_v == <<".", "v">>
S_dot_vp == <<".", "v", "p">>
S_vivado == <<"v", "i", "v", "a", "d", "o">>
S_bin == <<"b", "i", "n">>
S_tcl == <<"t", "c", "l">>
S_extract == <<"e", "x", "t", "r", "a", "c", "t", "_", "c", "o", "m", "p", "i", "l", "e", "_", "o", "r", "d", "e", "r", ".", "t", "c", "l">>
S_flags == <<" ", "-", "n", "o", "j", "o", "u", "r", "n", "a", "l", " ", "-", "n", "o", "l", "o", "g", " ", "-", "n", "o", "t", "r", "a", "c", "e", " ", "-", "m", "o", "d", "e", " ", "b", "a", "t", "c", "h", " ", "-", "s", "o", "u", "r", "c", "e", " ">>
S_tclargs == <<" ", "-", "t", "c", "l", "a", "r", "g", "s", " ">>
S_generating == <<"G", "e", "n", "e", "r", "a", "t", "i", "n", "g", " ", "V", "i", "v", "a", "d", "o", " ", "p", "r", "o", "j", "e", "c", "t", " ", "c", "o", "m", "p", "i", "l", "e", " ", "o", "r", "d", "e", "r", " ", "i", "n", "t", "o", " ">>
S_dots == <<" ", ".", ".", ".">>
S_extracting == <<"E", "x", "t", "r", "a", "c", "t", "i", "n", "g", " ", "c", "o", "m", "p", "i", "l", "e", " ", "o", "r", "d", "e", "r", " ", ".", ".", ".">>

\* Strings of the inputs: library names, file types, paths.
S_libA == <<"l", "i", "b", "A">>
S_libB == <<"l", "i", "b", "B">>
S_SystemC == <<"S", "y", "s", "t", "e", "m", "C">>
P_a == <<"/", "p", "/", "a", ".", "v", "h", "d">>
P_a2 == <<"/", "p", "2", "/", "a", ".", "v", "h", "d">>
P_h == <<"/", "p", "/", "i", "n", "c", "/", "h", ".", "v", "h">>
P_h2 == <<"/", "q", "/", "h", ".", "v", "h">>
P_b == <<"/", "p", "/", "b", ".", "v">>
P_bh == <<"/", "p", "/", "i", "n", "c", "/", "b", ".", "v">>
P_t == <<"/", "p", "/", "t", ".", "s", "v">>
P_u == <<"/", "p", "/", "u", ".", "v", "p">>
P_w == <<"/", "p", "/", "w", ".", "v">>
P_s == <<"/", "p", "/", "s", ".", "c", "p", "p">>
P_c == <<"/", "p", "/", "c", ",", "d", ".", "v", "h", "d">>
ModuleDir == <<"/", "m", "/", "v", "i", "v", "a", "d", "o">>
Cwd == <<"/", "w">>
F_abs == <<"/", "o", "/", "c", ".", "t", "x", "t">>
F_rel == <<"o", "/", "d", "/", "c", ".", "t", "x", "t">>
F_bare == <<"c", ".", "t", "x", "t">>
S_project == <<"p", ".", "x", "p", "r">>
S_vivado_path == <<"/", "x">>

\* None and a present value (vivado_path=None, include_dirs=None, cwd=None).
None == [some |-> FALSE, val |-> <<>>]
Some(v) == [some |-> TRUE, val |-> v]

--------------------------------------------------------------------------
\* Python's str and os.path functions, as the code uses them.

Whitespace == {" ", "\n", "\t", "\r"}

RECURSIVE LStrip(_)
LStrip(s) ==
    IF s # <<>> /\ Head(s) \in Whitespace THEN LStrip(Tail(s)) ELSE s

RECURSIVE RStrip(_)
RStrip(s) ==
    IF s # <<>> /\ s[Len(s)] \in Whitespace
    THEN RStrip(SubSeq(s, 1, Len(s) - 1)) ELSE s

\* str.strip()
Strip(s) == RStrip(LStrip(s))

\* str.find(c): the first index of c in s, 0 when absent (1-based).
Find(s, c) ==
    IF \E i \in 1..Len(s) : s[i] = c
    THEN CHOOSE i \in 1..Len(s) : s[i] = c /\ \A j \in 1..(i - 1) : s[j] # c
    ELSE 0

\* str.rfind(c): the last index of c in s, 0 when absent (1-based).
RFind(s, c) ==
    IF \E i \in 1..Len(s) : s[i] = c
    THEN CHOOSE i \in 1..Len(s) : s[i] = c /\ \A j \in (i + 1)..Len(s) : s[j] # c
    ELSE 0

\* str.split(sep, maxsplit): at most maxsplit splits, the rest kept whole.
RECURSIVE Split(_, _, _)
Split(s, sep, maxsplit) ==
    LET i == Find(s, sep)
    IN  IF maxsplit = 0 \/ i = 0 THEN <<s>>
        ELSE <<SubSeq(s, 1, i - 1)>>
                 \o Split(SubSeq(s, i + 1, Len(s)), sep, maxsplit - 1)

\* str.endswith(suffix)
EndsWith(s, suffix) ==
    /\ Len(s) >= Len(suffix)
    /\ SubSeq(s, Len(s) - Len(suffix) + 1, Len(s)) = suffix

RECURSIVE RStripSlash(_)
RStripSlash(s) ==
    IF s # <<>> /\ s[Len(s)] = "/"
    THEN RStripSlash(SubSeq(s, 1, Len(s) - 1)) ELSE s

\* os.path.basename: what follows the last slash.
Basename(p) == SubSeq(p, RFind(p, "/") + 1, Len(p))

\* os.path.dirname: what precedes the last slash, trailing slashes dropped
\* unless it is all slashes.
Dirname(p) ==
    LET head == SubSeq(p, 1, RFind(p, "/"))
    IN  IF head # <<>> /\ (\E i \in 1..Len(head) : head[i] # "/")
        THEN RStripSlash(head) ELSE head

\* os.path.join of two components (the second one relative).
Join(a, b) == IF a = <<>> \/ a[Len(a)] = "/" THEN a \o b ELSE a \o <<"/">> \o b

\* os.path.abspath of a normalised path: relative paths are under Cwd.
AbsPath(p) == IF p # <<>> /\ p[1] = "/" THEN p ELSE IF p = <<>> THEN Cwd ELSE Join(Cwd, p)

\* " ".join(list)
RECURSIVE JoinSpace(_)
JoinSpace(l) ==
    IF l = <<>> THEN <<>>
    ELSE IF Len(l) = 1 THEN l[1]
    ELSE l[1] \o <<" ">> \o JoinSpace(Tail(l))

\* list(a_set): the elements once each, in an order the code does not fix.
ListsOf(S) ==
    {l \in [1..Cardinality(S) -> S] : \A d \in S : \E i \in 1..Cardinality(S) : l[i] = d}

--------------------------------------------------------------------------
\* The compile-order files given to the parser.

\* One record of a compile-order file: library,type,path.
Entry(lib, type, path) == [lib |-> lib, type |-> type, path |-> path]

\* The records the enumerated files are made of.
Lines ==
    { Entry(S_libA, S_VHDL, P_a),
      Entry(S_libA, S_VerilogHeader, P_h),
      Entry(S_libB, S_Verilog, P_b),
      Entry(S_libA, S_VHDL, P_a2),
      Entry(S_libA, S_VerilogHeader, P_h2),
      Entry(S_libB, S_VerilogHeader, P_bh),
      Entry(S_xil_defaultlib, S_Verilog, P_t),
      Entry(S_xil_defaultlib, S_Verilog, P_u),
      Entry(S_libA, S_VHDL, P_w),
      Entry(S_libB, S_VHDL, P_c),
      Entry(S_libA, S_SystemC, P_s) }

\* The example file of the specification.
ExampleFile ==
    << Entry(S_libA, S_VHDL, P_a),
       Entry(S_libA, S_VerilogHeader, P_h),
       Entry(S_libB, S_Verilog, P_b),
       Entry(S_libA, S_VHDL, P_a2) >>

Files == UNION {[1..n -> Lines] : n \in 0..MaxLines} \cup {ExampleFile}

\* The text of a record's line, as readlines() returns it.
Render(e) == e.lib \o <<",">> \o e.type \o <<",">> \o e.path \o <<"\n">>

\* The output paths, install paths and directory trees given to
\* create_compile_order_file.
OutputPaths == {F_abs, F_rel, F_bare}

VivadoPaths == {None, Some(S_vivado_path)}

Root == <<"/">>

\* A path and the directories above it.
Ancestors(p) == {SubSeq(p, 1, i - 1) : i \in {j \in 2..Len(p) : p[j] = "/"}} \cup {p}

FileSystems ==
    { {Root, Cwd} \cup UNION {Ancestors(d) : d \in D} :
        D \in SUBSET UNION {Ancestors(Dirname(AbsPath(f))) : f \in OutputPaths} }

--------------------------------------------------------------------------
VARIABLES
    op,                 \* the function called: "import" or "create"
    pc,                 \* the position in it
    error,              \* the exception raised, "" when none
    ifile,              \* the compile-order file: its records
    idx,                \* _read_compile_order: lines consumed
    compile_order,      \* _read_compile_order: compile_order
    unique,             \* _read_compile_order: unique
    include_dirs,       \* _read_compile_order: include_dirs (the set), then
                        \* add_from_compile_order_file: include_dirs (the list)
    libraries,          \* libraries
    host_libs,          \* vunit_obj: the add_library calls
    host_files,         \* vunit_obj: the add_source_file calls; a handle is
                        \* the call's index
    deps,               \* vunit_obj: the add_dependency_on calls
    pos,                \* add_from_compile_order_file: entries iterated
    previous_source,    \* add_from_compile_order_file: previous_source
    source_files,       \* add_from_compile_order_file: source_files
    result,             \* add_from_compile_order_file: the value returned
    compile_order_file, \* create_compile_order_file: its arguments
    project_file,
    vivado_path,
    fs,                 \* the directories that exist (absolute paths)
    stdout,             \* the lines printed
    calls               \* the check_call invocations

parse_vars == <<ifile, idx, compile_order, unique, include_dirs, libraries>>
host_vars == <<host_libs, host_files, deps>>
reg_vars == <<pos, previous_source, source_files, result>>
create_vars == <<compile_order_file, project_file, vivado_path, fs, stdout, calls>>
vars == <<op, pc, error, parse_vars, host_vars, reg_vars, create_vars>>

InitImport ==
    /\ op = "import"
    /\ pc = "read"
    /\ ifile \in Files
    /\ compile_order_file = <<>>
    /\ project_file = <<>>
    /\ vivado_path = None
    /\ fs = {Root, Cwd}

InitCreate ==
    /\ op = "create"
    /\ pc = "create"
    /\ ifile = <<>>
    /\ compile_order_file \in OutputPaths
    /\ project_file = S_project
    /\ vivado_path \in VivadoPaths
    /\ fs \in FileSystems

Init ==
    /\ InitImport \/ InitCreate
    /\ error = ""
    /\ idx = 0
    /\ compile_order = <<>>
    /\ unique = {}
    /\ include_dirs = {}
    /\ libraries = {}
    /\ host_libs = <<>>
    /\ host_files = <<>>
    /\ deps = <<>>
    /\ pos = 0
    /\ previous_source = None
    /\ source_files = <<>>
    /\ result = <<>>
    /\ stdout = <<>>
    /\ calls = <<>>

--------------------------------------------------------------------------
\* _read_compile_order

\* FileTypes, with an unrecognised type accepted.
FileTypesWithSystemC == {S_Verilog, S_VHDL, S_VerilogHeader, S_SystemC}

\* The type fields the parser accepts.
FileTypes == {S_Verilog, S_VHDL, S_VerilogHeader}

\* KeyOf, with the whole path in the key.
KeyOfFullPath(library_name, file_name) == <<library_name, file_name>>

\* The key duplicates are detected by.
KeyOf(library_name, file_name) == <<library_name, Basename(file_name)>>

\* LibrariesAdd, with the set replaced instead of extended.
LibrariesAssign(libs, library_name) == {library_name}

\* libraries.add(library_name)
LibrariesAdd(libs, library_name) == libs \cup {library_name}

\* UniqueAdd, with the key not recorded.
UniqueAddForgotten(keys, key) == keys

\* unique.add(key)
UniqueAdd(keys, key) == keys \cup {key}

\* IncludeDirsAdd, with the header's path added instead of its directory.
IncludeDirsAddPath(dirs, file_name) == dirs \cup {file_name}

\* include_dirs.add(dirname(file_name))
IncludeDirsAdd(dirs, file_name) == dirs \cup {Dirname(file_name)}

\* One iteration of the loop over the lines: split and validate the line,
\* record its library, drop it when its key was seen, else add its directory
\* (a header) or the file itself to the results.
ReadLine ==
    /\ op = "import"
    /\ pc = "read"
    /\ idx < Len(ifile)
    /\ LET line == Render(ifile[idx + 1])
           fields == Split(Strip(line), ",", 2)
       IN  IF Len(fields) # 3
           THEN /\ pc' = "raised"
                /\ error' = "ValueError"
                /\ UNCHANGED parse_vars
           ELSE LET library_name == fields[1]
                    file_type == fields[2]
                    file_name == fields[3]
                    key == KeyOf(library_name, file_name)
                IN  IF file_type \notin FileTypes
                    THEN /\ pc' = "raised"
                         /\ error' = "AssertionError"
                         /\ UNCHANGED parse_vars
                    ELSE /\ idx' = idx + 1
                         /\ libraries' = LibrariesAdd(libraries, library_name)
                         /\ IF key \in unique
                            THEN UNCHANGED <<unique, include_dirs, compile_order>>
                            ELSE /\ unique' = UniqueAdd(unique, key)
                                 /\ IF file_type = S_VerilogHeader
                                    THEN /\ include_dirs' = IncludeDirsAdd(include_dirs, file_name)
                                         /\ UNCHANGED compile_order
                                    ELSE /\ compile_order' = Append(compile_order, <<library_name, file_name>>)
                                         /\ UNCHANGED include_dirs
                         /\ UNCHANGED <<pc, error, ifile>>
    /\ UNCHANGED <<op, host_vars, reg_vars, create_vars>>

\* The return: compile_order, libraries, list(include_dirs).
ReadReturn ==
    /\ op = "import"
    /\ pc = "read"
    /\ idx = Len(ifile)
    /\ include_dirs' \in ListsOf(include_dirs)
    /\ pc' = "add_libraries"
    /\ UNCHANGED <<op, error, ifile, idx, compile_order, unique, libraries,
                   host_vars, reg_vars, create_vars>>

--------------------------------------------------------------------------
\* add_from_compile_order_file

VhdlStandard == "93"

\* NoParse, with the comparison inverted.
NoParseInverted(library_name) == library_name = S_xil_defaultlib

\* no_parse=library_name != "xil_defaultlib"
NoParse(library_name) == library_name # S_xil_defaultlib

\* IsVerilog, with the ".vp" extension left out.
IsVerilogOnlyV(file_name) == EndsWith(file_name, S_dot_v)

\* is_verilog = file_name.endswith(".v") or file_name.endswith(".vp")
IsVerilog(file_name) == EndsWith(file_name, S_dot_v) \/ EndsWith(file_name, S_dot_vp)

\* The names of the libraries created so far.
Created == {host_libs[k].name : k \in 1..Len(host_libs)}

\* One iteration of the loop over the libraries (a set: any order).
AddLibrary ==
    /\ op = "import"
    /\ pc = "add_libraries"
    /\ \E library_name \in libraries \ Created :
           host_libs' = Append(host_libs,
                               [name |-> library_name, vhdl_standard |-> VhdlStandard])
    /\ UNCHANGED <<op, pc, error, parse_vars, host_files, deps, reg_vars, create_vars>>

\* The end of the loop over the libraries; previous_source = None,
\* source_files = [].
StartFiles ==
    /\ op = "import"
    /\ pc = "add_libraries"
    /\ libraries \ Created = {}
    /\ previous_source' = None
    /\ source_files' = <<>>
    /\ pos' = 0
    /\ pc' = "add_files"
    /\ UNCHANGED <<op, error, parse_vars, host_vars, result, create_vars>>

\* AppendHandle, with the handle put first.
PrependHandle(handles, source_file) == <<source_file>> \o handles

\* source_files.append(source_file)
AppendHandle(handles, source_file) == Append(handles, source_file)

\* NextPrevious, with previous_source left as it was.
NextPreviousStale(previous, source_file) == previous

\* previous_source = source_file
NextPrevious(previous, source_file) == Some(source_file)

\* if previous_source is not None
HasPrevious(previous) == previous.some

\* One iteration of the loop over the compile list: register the file in its
\* library, and make it depend on the file registered before it.
AddSourceFile ==
    /\ op = "import"
    /\ pc = "add_files"
    /\ pos < Len(compile_order)
    /\ LET library_name == compile_order[pos + 1][1]
           file_name == compile_order[pos + 1][2]
           is_verilog == IsVerilog(file_name)
           source_file == Len(host_files) + 1
       IN  /\ host_files' = Append(host_files,
                  [library |-> library_name,
                   file_name |-> file_name,
                   no_parse |-> NoParse(library_name),
                   include_dirs |-> IF is_verilog THEN Some(include_dirs) ELSE None])
           /\ source_files' = AppendHandle(source_files, source_file)
           /\ deps' = IF HasPrevious(previous_source)
                      THEN Append(deps, [file |-> source_file, on |-> previous_source.val])
                      ELSE deps
           /\ previous_source' = NextPrevious(previous_source, source_file)
    /\ pos' = pos + 1
    /\ UNCHANGED <<op, pc, error, parse_vars, host_libs, result, create_vars>>

\* return source_files
ReturnSourceFiles ==
    /\ op = "import"
    /\ pc = "add_files"
    /\ pos = Len(compile_order)
    /\ result' = source_files
    /\ pc' = "done"
    /\ UNCHANGED <<op, error, parse_vars, host_vars, pos, previous_source,
                   source_files, create_vars>>

--------------------------------------------------------------------------
\* create_compile_order_file, run_vivado

\* os.path.exists: the empty path names nothing.
Exists(dirs, p) == p # <<>> /\ AbsPath(p) \in dirs

\* print, then the creation of the output directory when it does not exist.
\* os.makedirs creates the directory and its missing ancestors, and raises
\* FileNotFoundError for the empty path.
PrepareDirectory ==
    /\ op = "create"
    /\ pc = "create"
    /\ stdout' = Append(stdout, S_generating \o AbsPath(compile_order_file) \o S_dots)
    /\ LET dir == Dirname(compile_order_file)
       IN  IF ~Exists(fs, dir)
           THEN IF dir = <<>>
                THEN /\ pc' = "raised"
                     /\ error' = "FileNotFoundError"
                     /\ UNCHANGED fs
                ELSE /\ fs' = fs \cup Ancestors(AbsPath(dir))
                     /\ pc' = "run_vivado"
                     /\ UNCHANGED error
           ELSE /\ pc' = "run_vivado"
                /\ UNCHANGED <<fs, error>>
    /\ UNCHANGED <<op, parse_vars, host_vars, reg_vars, compile_order_file,
                   project_file, vivado_path, calls>>

\* The command line run_vivado builds.
Command(tcl_file_name, tcl_args, path) ==
    LET vivado == IF ~path.some THEN S_vivado
                  ELSE Join(Join(AbsPath(path.val), S_bin), S_vivado)
        cmd == vivado \o S_flags \o AbsPath(tcl_file_name)
    IN  IF tcl_args.some THEN cmd \o S_tclargs \o JoinSpace(tcl_args.val) ELSE cmd

\* print, then run_vivado: the command is built, printed and run through the
\* shell; a non-zero exit status raises CalledProcessError.
RunVivado ==
    /\ op = "create"
    /\ pc = "run_vivado"
    /\ LET cmd == Command(Join(Join(ModuleDir, S_tcl), S_extract),
                          Some(<<project_file, compile_order_file>>), vivado_path)
       IN  /\ stdout' = stdout \o <<S_extracting, cmd>>
           /\ calls' = Append(calls, [cmd |-> cmd, cwd |-> None, shell |-> TRUE])
    /\ \E returncode \in {0, 1} :
           IF returncode # 0
           THEN pc' = "raised" /\ error' = "CalledProcessError"
           ELSE pc' = "done" /\ UNCHANGED error
    /\ UNCHANGED <<op, parse_vars, host_vars, reg_vars, compile_order_file,
                   project_file, vivado_path, fs>>

--------------------------------------------------------------------------
Next ==
    \/ ReadLine
    \/ ReadReturn
    \/ AddLibrary
    \/ StartFiles
    \/ AddSourceFile
    \/ ReturnSourceFiles
    \/ PrepareDirectory
    \/ RunVivado

Spec == Init /\ [][Next]_vars

--------------------------------------------------------------------------
\* Vocabulary of the properties: the records of the file, by line number.

NumLines == Len(ifile)
Lib(i) == ifile[i].lib
Type(i) == ifile[i].type
Path(i) == ifile[i].path
Key(i) == <<ifile[i].lib, Basename(ifile[i].path)>>

IsHeaderLine(i) == Type(i) = S_VerilogHeader
IsSourceLine(i) == Type(i) \in {S_VHDL, S_Verilog}
WellFormed == \A i \in 1..NumLines : IsHeaderLine(i) \/ IsSourceLine(i)

\* Line i is the first line of the file with its key.
FirstOfKey(i) == \A j \in 1..(i - 1) : Key(j) # Key(i)

\* Line i is the first non-header line of the file with its key.
FirstSourceOfKey(i) == \A j \in 1..(i - 1) : IsSourceLine(j) => Key(j) # Key(i)

\* The parser has returned.
Parsed == op = "import" /\ pc \in {"add_libraries", "add_files", "done"}

AllLibraries == {Lib(i) : i \in 1..NumLines}

Count(l, x) == Cardinality({m \in 1..Len(l) : l[m] = x})

P_inc == <<"/", "p", "/", "i", "n", "c">>

\* The line a registered file comes from.
LineOf(library_name, file_name) ==
    CHOOSE i \in 1..NumLines :
        FirstOfKey(i) /\ Lib(i) = library_name /\ Path(i) = file_name

\* The non-header lines among the first n that are the first of their key,
\* as (library, path) pairs in file order.
RECURSIVE FirstOccurrences(_)
FirstOccurrences(n) ==
    IF n = 0 THEN <<>>
    ELSE IF IsSourceLine(n) /\ FirstOfKey(n)
         THEN Append(FirstOccurrences(n - 1), <<Lib(n), Path(n)>>)
         ELSE FirstOccurrences(n - 1)

\* The non-header lines among the first n that are the first non-header line
\* of their key, as (library, path) pairs in file order.
RECURSIVE FirstSourceOccurrences(_)
FirstSourceOccurrences(n) ==
    IF n = 0 THEN <<>>
    ELSE IF IsSourceLine(n) /\ FirstSourceOfKey(n)
         THEN Append(FirstSourceOccurrences(n - 1), <<Lib(n), Path(n)>>)
         ELSE FirstSourceOccurrences(n - 1)

--------------------------------------------------------------------------
\* C1, as stated: the compile list has one entry per distinct (library,
\* basename) pair among the non-header lines, in the order of the pairs' first
\* occurrence among them, also when a header line has the same pair.
C1_AsClaimed ==
    (Parsed /\ WellFormed) =>
        /\ Len(compile_order)
             = Cardinality({Key(i) : i \in {j \in 1..NumLines : IsSourceLine(j)}})
        /\ compile_order = FirstSourceOccurrences(NumLines)

\* C1, amended: after every line read, the compile list holds exactly the
\* non-header lines that are the first line of any type with their (library,
\* basename) pair, in file order; its length is the number of pairs whose
\* first occurrence is a non-header line.  A non-header line whose pair first
\* occurred on a header line adds no entry.
C1_CompileListIsFirstOccurrences ==
    op = "import" =>
        /\ compile_order = FirstOccurrences(idx)
        /\ Len(compile_order)
             = Cardinality({Key(i) : i \in {j \in 1..idx : IsSourceLine(j) /\ FirstOfKey(j)}})

\* A parsed file in which a non-header line repeats the pair of an earlier
\* header line and another non-header line is retained.
C1_Witness ==
    /\ Parsed
    /\ Len(compile_order) >= 1
    /\ \E i, j \in 1..NumLines :
           i < j /\ Key(i) = Key(j) /\ IsHeaderLine(i) /\ IsSourceLine(j)

\* C2: the compile list never holds two entries with the same (library,
\* basename) key; reading a line whose key an earlier line with a different
\* path has changes neither the compile list nor the include directories; and
\* the example file gives [(libA,/p/a.vhd), (libB,/p/b.v)], {libA, libB},
\* {/p/inc}.
C2_DuplicateKeyDropped ==
    /\ [](op = "import" =>
            \A k, l \in 1..Len(compile_order) :
                (/\ compile_order[k][1] = compile_order[l][1]
                 /\ Basename(compile_order[k][2]) = Basename(compile_order[l][2]))
                => k = l)
    /\ [][(/\ op = "import"
           /\ idx' = idx + 1
           /\ \E j \in 1..idx : Key(j) = Key(idx + 1) /\ Path(j) # Path(idx + 1))
          => (compile_order' = compile_order /\ include_dirs' = include_dirs)]_vars
    /\ []((Parsed /\ ifile = ExampleFile) =>
            /\ compile_order = << <<S_libA, P_a>>, <<S_libB, P_b>> >>
            /\ libraries = {S_libA, S_libB}
            /\ include_dirs = <<P_inc>>)

\* A line with the key of an earlier line and another path has been read
\* after a retained entry.
C2_Witness ==
    /\ op = "import"
    /\ pc = "read"
    /\ Len(compile_order) >= 1
    /\ idx >= 2
    /\ \E j \in 1..(idx - 1) : Key(j) = Key(idx) /\ Path(j) # Path(idx)

\* C3, as stated: no header line's path is in the compile list, and every
\* header line's parent directory is exactly once in the include directories
\* returned, also when the line has the key of an earlier line.
C3_AsClaimed ==
    (Parsed /\ WellFormed) =>
        \A i \in 1..NumLines :
            IsHeaderLine(i) =>
                /\ \A k \in 1..Len(compile_order) : compile_order[k][2] # Path(i)
                /\ Count(include_dirs, Dirname(Path(i))) = 1

\* C3, amended: every entry of the compile list comes from a non-header
\* line; the parent directory of every header line that is the first line
\* with its (library, basename) key is exactly once in the include
\* directories returned, also when several such lines share it; and a header
\* line with the key of an earlier line is dropped: the include directories
\* are those of the first-of-key header lines and no others.
C3_HeaderLinesGiveDirectories ==
    Parsed =>
        /\ \A k \in 1..Len(compile_order) :
               \E i \in 1..NumLines :
                   IsSourceLine(i) /\ compile_order[k] = <<Lib(i), Path(i)>>
        /\ \A i \in 1..NumLines :
               (IsHeaderLine(i) /\ FirstOfKey(i))
               => Count(include_dirs, Dirname(Path(i))) = 1
        /\ \A m \in 1..Len(include_dirs) :
               \E i \in 1..NumLines :
                   IsHeaderLine(i) /\ FirstOfKey(i) /\ include_dirs[m] = Dirname(Path(i))

\* Two header lines that share a directory, and a header line with the key
\* of an earlier line in another directory, have been parsed.
C3_Witness ==
    /\ Parsed
    /\ \E i, j \in 1..NumLines :
           /\ i # j /\ IsHeaderLine(i) /\ IsHeaderLine(j)
           /\ FirstOfKey(i) /\ FirstOfKey(j)
           /\ Dirname(Path(i)) = Dirname(Path(j))
    /\ \E i, j \in 1..NumLines :
           /\ i < j /\ IsHeaderLine(j) /\ Key(i) = Key(j)
           /\ Dirname(Path(i)) # Dirname(Path(j))

\* C4: the library set returned is the set of the library fields of all
\* lines, header lines and dropped duplicates included, and once the
\* libraries are created there is exactly one add_library call per distinct
\* library name, each with VHDL standard "93".
C4_LibrariesAreAllLibraryFields ==
    /\ Parsed => libraries = AllLibraries
    /\ (op = "import" /\ pc \in {"add_files", "done"}) =>
           /\ Len(host_libs) = Cardinality(AllLibraries)
           /\ \A n \in AllLibraries :
                  Cardinality({k \in 1..Len(host_libs) : host_libs[k].name = n}) = 1
           /\ \A k \in 1..Len(host_libs) : host_libs[k].vhdl_standard = "93"

\* The call has returned; one library has no registered file, and a line was
\* dropped as a duplicate.
C4_Witness ==
    /\ op = "import"
    /\ pc = "done"
    /\ Cardinality(AllLibraries) >= 2
    /\ \E n \in AllLibraries :
           \A k \in 1..Len(host_files) : host_files[k].library # n
    /\ \E i \in 1..NumLines : ~FirstOfKey(i)

\* The first line whose type is not one of the three recognised.
FirstBadLine ==
    CHOOSE i \in 1..NumLines :
        /\ ~(IsHeaderLine(i) \/ IsSourceLine(i))
        /\ \A j \in 1..(i - 1) : IsHeaderLine(j) \/ IsSourceLine(j)

\* C5: with a line of unrecognised type in the file, the parser never reads
\* past the first such line and never returns; it fails there with an
\* AssertionError, and the build host is untouched: no library, no source
\* file, no dependency, nothing returned.
C5_BadTypeFailsWithoutPartialResult ==
    (op = "import" /\ ~WellFormed) =>
        /\ pc \in {"read", "raised"}
        /\ idx < FirstBadLine
        /\ pc = "raised" => (error = "AssertionError" /\ idx = FirstBadLine - 1)
        /\ host_libs = <<>>
        /\ host_files = <<>>
        /\ deps = <<>>
        /\ result = <<>>

\* The parse has failed on a line of unrecognised type that follows two
\* accepted lines, one of them retained.
C5_Witness ==
    /\ op = "import"
    /\ pc = "raised"
    /\ error = "AssertionError"
    /\ idx >= 2
    /\ Len(compile_order) >= 1

\* C6: file k+1 depends on file k and on no other, the first file on none,
\* there is one add_dependency_on call per file but the first, and on return
\* every entry of the compile list has been registered.
C6_DependenciesFormOneChain ==
    op = "import" =>
        /\ Len(deps) = (IF Len(host_files) = 0 THEN 0 ELSE Len(host_files) - 1)
        /\ \A i \in 1..Len(host_files) :
               {deps[k].on : k \in {m \in 1..Len(deps) : deps[m].file = i}}
                 = (IF i = 1 THEN {} ELSE {i - 1})
        /\ pc = "done" => Len(host_files) = Len(compile_order)

\* Three files have been registered, two consecutive ones in the same library
\* and two consecutive ones in different libraries.
C6_Witness ==
    /\ op = "import"
    /\ pc = "done"
    /\ Len(host_files) >= 3
    /\ \E k \in 1..(Len(host_files) - 1) :
           host_files[k].library = host_files[k + 1].library
    /\ \E k \in 1..(Len(host_files) - 1) :
           host_files[k].library # host_files[k + 1].library

\* C7, as stated: a file is registered with the include directories when its
\* line has type Verilog and with None when its line has type VHDL, whatever
\* its extension.
C7_AsClaimed ==
    op = "import" =>
        \A k \in 1..Len(host_files) :
            LET t == Type(LineOf(host_files[k].library, host_files[k].file_name))
            IN  /\ t = S_Verilog => host_files[k].include_dirs = Some(include_dirs)
                /\ t = S_VHDL => host_files[k].include_dirs = None

\* C7, amended: a file is registered with the include-directory list if and
\* only if its name ends in ".v" or ".vp", whatever the type of its line, and
\* with None otherwise.
C7_IncludeDirsByExtension ==
    op = "import" =>
        \A k \in 1..Len(host_files) :
            LET f == host_files[k].file_name
                n == Len(f)
                dot_v == n >= 2 /\ f[n - 1] = "." /\ f[n] = "v"
                dot_vp == n >= 3 /\ f[n - 2] = "." /\ f[n - 1] = "v" /\ f[n] = "p"
            IN  host_files[k].include_dirs
                  = (IF dot_v \/ dot_vp THEN Some(include_dirs) ELSE None)

\* With an include directory present, a Verilog line with another extension
\* has been registered with None and a ".vp" file with the directories.
C7_Witness ==
    /\ op = "import"
    /\ pc = "done"
    /\ include_dirs # <<>>
    /\ \E k \in 1..Len(host_files) :
           /\ host_files[k].file_name = P_t
           /\ host_files[k].include_dirs = None
    /\ \E k \in 1..Len(host_files) :
           /\ host_files[k].file_name = P_u
           /\ host_files[k].include_dirs = Some(include_dirs)

\* The parent directory of the output path exists (the working directory for
\* a bare file name).
ParentExists ==
    LET dir == Dirname(compile_order_file)
    IN  IF dir = <<>> THEN Cwd \in fs ELSE AbsPath(dir) \in fs

\* C8: for every output path the creation of the directory never fails the
\* call, the parent directory exists when the tool is invoked, and the tool
\* is invoked exactly once, with the project file and the output path in that
\* order as its arguments.
C8_AsClaimed ==
    op = "create" =>
        /\ error # "FileNotFoundError"
        /\ pc = "run_vivado" => ParentExists
        /\ Len(calls) <= 1
        /\ pc \in {"done", "raised"} =>
               /\ Len(calls) = 1
               /\ ParentExists
               /\ EndsWith(calls[1].cmd,
                           S_tclargs \o project_file \o <<" ">> \o compile_order_file)

\* C9: a file is registered with no_parse = FALSE if and only if its library
\* is xil_defaultlib.
C9_ParseOnlyDefaultLibrary ==
    op = "import" =>
        \A k \in 1..Len(host_files) :
            (host_files[k].no_parse = FALSE)
              <=> (host_files[k].library = S_xil_defaultlib)

\* A file of xil_defaultlib and a file of another library, both from Verilog
\* lines, have been registered.
C9_Witness ==
    /\ op = "import"
    /\ pc = "done"
    /\ \E k, l \in 1..Len(host_files) :
           /\ host_files[k].library = S_xil_defaultlib
           /\ host_files[l].library # S_xil_defaultlib
           /\ ~host_files[k].no_parse
           /\ host_files[l].no_parse
           /\ Type(LineOf(host_files[k].library, host_files[k].file_name)) = S_Verilog
           /\ Type(LineOf(host_files[l].library, host_files[l].file_name)) = S_Verilog

\* C10: a source file is registered only when every library of the library
\* set has been created; the library of every compile-list entry is in the
\* library set, and that of every registered file has been created; on
\* return the handles returned are those of the compile-list entries, one
\* each, in the order of the compile list.
C10_LibrariesBeforeFiles ==
    op = "import" =>
        /\ Len(host_files) > 0 => (libraries \subseteq Created)
        /\ \A k \in 1..Len(host_files) : host_files[k].library \in Created
        /\ Parsed => \A k \in 1..Len(compile_order) : compile_order[k][1] \in libraries
        /\ pc = "done" =>
               /\ Len(result) = Len(compile_order)
               /\ \A k \in 1..Len(result) :
                      /\ result[k] = k
                      /\ host_files[k].library = compile_order[k][1]
                      /\ host_files[k].file_name = compile_order[k][2]

\* The call has returned the handles of two files of two libraries.
C10_Witness ==
    /\ op = "import"
    /\ pc = "done"
    /\ Len(result) >= 2
    /\ \E k, l \in 1..Len(host_files) : host_files[k].library # host_files[l].library

====
